---- MODULE Spec2Model ----
(***************************************************************************)
(* Model of the BACnet codec of bacnet-rs: the tag-number conversions of   *)
(* src/src/encoding.rs and the NPDU envelope of src/src/network.rs         *)
(* (NPDUMessage, NPDUDest, NPDUSource, NPDU::new, encode, len, decode).    *)
(*                                                                         *)
(* Option<T> is a sequence of length 0 (None) or 1 (Some).  A byte is a    *)
(* number in 0..255, a u16 a number in 0..65535.  A reader is a byte       *)
(* sequence with a position; a writer is the byte sequence written.        *)
(***************************************************************************)
EXTENDS Integers, Sequences, FiniteSets, TLC

VARIABLES pc, npdu, wire, lenv, res, fam, kind_in, byte_in, kind_out, byte_out

vars == <<pc, npdu, wire, lenv, res, fam, kind_in, byte_in, kind_out, byte_out>>

npduVars == <<npdu, wire, lenv, res>>

codeVars == <<fam, kind_in, byte_in, kind_out, byte_out>>

(***************************************************************************)
(* Bounds of the model.                                                    *)
(***************************************************************************)
MaxAdrLen == 2

MaxInputLen == 8

MaxUserData == 1

(***************************************************************************)
(* Machine integers.                                                       *)
(***************************************************************************)
U8Max == 255

Byte == 0..U8Max

Bit(x, i) == (x \div (2 ^ i)) % 2

BitOr8(x, y) ==
    LET b(i) == IF Bit(x, i) = 1 \/ Bit(y, i) = 1 THEN 2 ^ i ELSE 0
    IN  b(0) + b(1) + b(2) + b(3) + b(4) + b(5) + b(6) + b(7)

BitAnd8(x, y) ==
    LET b(i) == IF Bit(x, i) = 1 /\ Bit(y, i) = 1 THEN 2 ^ i ELSE 0
    IN  b(0) + b(1) + b(2) + b(3) + b(4) + b(5) + b(6) + b(7)

Shl8(x, n) == (x * (2 ^ n)) % 256

AsU8(n) == n % 256

Some(x) == <<x>>

None == <<>>

IsSome(o) == Len(o) = 1

SeqsUpTo(S, n) == UNION {[1..k -> S] : k \in 0..n}

(***************************************************************************)
(* encoding.rs: ApplicationTag and ContextTag.  A kind is a record of the  *)
(* variant name and the carried code t (0 for the variants carrying none). *)
(***************************************************************************)
AppNamed ==
    <<"Null", "Boolean", "UnsignedInteger", "SignedInteger", "Real", "Double",
      "OctetString", "CharacterString", "BitString", "Enumerated", "Date",
      "Time", "BACnetObjectIdentifier">>

Kind(name, t) == [kind |-> name, t |-> t]

ApplicationTag ==
    {Kind(AppNamed[i], 0) : i \in 1..Len(AppNamed)}
        \cup {Kind("Reserved", t) : t \in Byte}
        \cup {Kind("Other", t) : t \in Byte}

ContextTag == {Kind("Other", t) : t \in Byte}

ReservedTagRange == 13..15

\* A faulty variant of the conversion: the reserved range ends at 14.
ApplicationTag_from_u8_ReservedTo14(tag_number) ==
    IF tag_number <= 12 THEN Kind(AppNamed[tag_number + 1], 0)
    ELSE IF tag_number \in 13..14 THEN Kind("Reserved", tag_number)
    ELSE Kind("Other", tag_number)

ApplicationTag_from_u8(tag_number) ==
    IF tag_number <= 12 THEN Kind(AppNamed[tag_number + 1], 0)
    ELSE IF tag_number \in ReservedTagRange THEN Kind("Reserved", tag_number)
    ELSE Kind("Other", tag_number)

\* A faulty variant of the conversion: every Reserved kind gives 13.
ApplicationTag_into_u8_Reserved13(val) ==
    IF val.kind = "Reserved" THEN 13
    ELSE IF val.kind = "Other" THEN val.t
    ELSE CHOOSE i \in 0..12 : AppNamed[i + 1] = val.kind

ApplicationTag_into_u8(val) ==
    IF val.kind = "Reserved" THEN val.t
    ELSE IF val.kind = "Other" THEN val.t
    ELSE CHOOSE i \in 0..12 : AppNamed[i + 1] = val.kind

ContextTag_from_u8(tag_number) == Kind("Other", tag_number)

ContextTag_into_u8(val) == val.t

(***************************************************************************)
(* network.rs: NPDUPriority.                                               *)
(***************************************************************************)
NPDUPriority == {"LifeSafety", "CriticalEquipment", "Urgent", "Normal"}

NPDUPriority_into_u8(val) ==
    CASE val = "LifeSafety" -> 3
      [] val = "CriticalEquipment" -> 2
      [] val = "Urgent" -> 1
      [] val = "Normal" -> 0

NPDUPriority_from_u8(n) ==
    IF n \in 0..3
    THEN Some(CHOOSE p \in NPDUPriority : NPDUPriority_into_u8(p) = n)
    ELSE None

(***************************************************************************)
(* network.rs: NPDUMessage.                                                *)
(***************************************************************************)
MsgNamed ==
    <<"WhoIsRouterToNetwork", "IAmRouterToNetwork", "ICouldBeRouterToNetwork",
      "RejectMessageToNetwork", "RouterBusyToNetwork", "RouterAvailableToNetwork",
      "InitializeRoutingTable", "InitializeRoutingTableAck",
      "EstablishConnectionToNetwork", "DisconnectConnectionToNetwork",
      "ChallengeRequest", "SecurityPayload", "SecurityResponse",
      "RequestKeyUpdate", "UpdateKeySet", "UpdateDistributionKey",
      "RequestMasterKey", "SetMasterKey", "WhatIsNetworkNumber",
      "NetworkNumberIs">>

NPDUMessage ==
    {Kind(MsgNamed[i], 0) : i \in 1..Len(MsgNamed)}
        \cup {Kind("Reserved", v) : v \in Byte}
        \cup {Kind("Proprietary", v) : v \in Byte}

\* A faulty variant of try_from: the two catch-all arms are swapped.
NPDUMessage_try_from_Swapped(v) ==
    IF v <= 19 THEN Some(Kind(MsgNamed[v + 1], 0))
    ELSE IF v \in 20..127 THEN Some(Kind("Proprietary", v))
    ELSE Some(Kind("Reserved", v))

\* TryFrom<u8>: Ok(kind) as Some(kind); the match has no Err arm.
NPDUMessage_try_from(v) ==
    IF v <= 19 THEN Some(Kind(MsgNamed[v + 1], 0))
    ELSE IF v \in 20..127 THEN Some(Kind("Reserved", v))
    ELSE Some(Kind("Proprietary", v))

\* The bytes encode writes.
NPDUMessage_encode(m) ==
    IF m.kind = "Reserved" THEN <<m.t>>
    ELSE IF m.kind = "Proprietary" THEN <<m.t>>
    ELSE <<CHOOSE i \in 0..19 : MsgNamed[i + 1] = m.kind>>

NPDUMessage_len(m) == 2

(***************************************************************************)
(* Byte sinks and sources (byteorder's WriteBytesExt / ReadBytesExt over   *)
(* std::io::Write / Read).  A read returns ok = FALSE on a short read      *)
(* (io::ErrorKind::UnexpectedEof).                                         *)
(***************************************************************************)
write_u8(n) == <<n>>

write_u16_be(n) == <<n \div 256, n % 256>>

ReadOk(v, pos) == [ok |-> TRUE, v |-> v, pos |-> pos]

ReadEof(pos) == [ok |-> FALSE, v |-> None, pos |-> pos]

read_u8(buf, pos) ==
    IF pos + 1 <= Len(buf) THEN ReadOk(buf[pos + 1], pos + 1) ELSE ReadEof(pos)

read_u16_be(buf, pos) ==
    IF pos + 2 <= Len(buf)
    THEN ReadOk(buf[pos + 1] * 256 + buf[pos + 2], pos + 2)
    ELSE ReadEof(pos)

\* read_exact(&mut dst) fills dst, a slice of n bytes: it reads n bytes.
read_exact(buf, pos, n) ==
    IF pos + n <= Len(buf)
    THEN ReadOk(SubSeq(buf, pos + 1, pos + n), pos + n)
    ELSE ReadEof(pos)

(***************************************************************************)
(* The application layer (crate::application), the content of an NPDU.     *)
(* main.rs builds APDU::new(0x01, 0x08, vec![]) and expects it on the wire *)
(* as the two bytes 10 08 that end the reference frame.                    *)
(***************************************************************************)
APDU_new(apdu_type, service_choice, user_data) ==
    [apdu_type |-> apdu_type, service_choice |-> service_choice,
     user_data |-> user_data]

APDU_encode(a) ==
    write_u8(Shl8(a.apdu_type, 4)) \o write_u8(a.service_choice) \o a.user_data

APDU_len(a) == 2 + Len(a.user_data)

APDU_decode(buf, pos) ==
    LET t == read_u8(buf, pos) IN
    IF ~t.ok THEN ReadEof(t.pos) ELSE
    LET c == read_u8(buf, t.pos) IN
    IF ~c.ok THEN ReadEof(c.pos) ELSE
    ReadOk(APDU_new(t.v \div 16, c.v, SubSeq(buf, c.pos + 1, Len(buf))), Len(buf))

(***************************************************************************)
(* network.rs: NPDUDest, NPDUSource, NPDUContent, NPDU.                    *)
(***************************************************************************)
DefaultHops == 255

\* Vec::with_capacity(capacity) is an empty vector: its len() is 0.
Vec_with_capacity(capacity) == <<>>

NPDUDest_new(net, capacity) ==
    [net |-> net, adr |-> Vec_with_capacity(capacity), hops |-> DefaultHops]

NPDUSource_new(net, capacity) ==
    [net |-> net, adr |-> Vec_with_capacity(capacity)]

ContentAPDU(a) == [variant |-> "APDU", body |-> a]

ContentMessage(m) == [variant |-> "Message", body |-> m]

NPDUContent_encode(c) ==
    IF c.variant = "APDU" THEN APDU_encode(c.body) ELSE NPDUMessage_encode(c.body)

NPDUContent_len(c) ==
    IF c.variant = "APDU" THEN APDU_len(c.body) ELSE NPDUMessage_len(c.body)

NPDU_new(content, destination, source, priority) ==
    [version |-> 1, content |-> content, destination |-> destination,
     source |-> source, data_expecting_reply |-> FALSE, priority |-> priority]

\* A faulty variant of the control byte: the source flag is bit 4.
NPDU_control_SourceBit4(v) ==
    LET c0 == NPDUPriority_into_u8(v.priority)
        c1 == IF v.data_expecting_reply THEN BitOr8(c0, Shl8(1, 2)) ELSE c0
        c2 == IF IsSome(v.source) THEN BitOr8(c1, Shl8(1, 4)) ELSE c1
        c3 == IF IsSome(v.destination) THEN BitOr8(c2, Shl8(1, 5)) ELSE c2
        c4 == IF v.content.variant = "Message" THEN BitOr8(c3, Shl8(1, 7)) ELSE c3
    IN  c4

\* The control byte encode computes.
NPDU_control(v) ==
    LET c0 == NPDUPriority_into_u8(v.priority)
        c1 == IF v.data_expecting_reply THEN BitOr8(c0, Shl8(1, 2)) ELSE c0
        c2 == IF IsSome(v.source) THEN BitOr8(c1, Shl8(1, 3)) ELSE c1
        c3 == IF IsSome(v.destination) THEN BitOr8(c2, Shl8(1, 5)) ELSE c2
        c4 == IF v.content.variant = "Message" THEN BitOr8(c3, Shl8(1, 7)) ELSE c3
    IN  c4

\* A faulty variant of encode: the hop count follows the destination block.
NPDU_encode_HopsAfterDest(v) ==
    write_u8(v.version)
        \o write_u8(NPDU_control(v))
        \o (IF IsSome(v.destination)
            THEN LET d == v.destination[1]
                 IN  write_u16_be(d.net) \o write_u8(AsU8(Len(d.adr))) \o d.adr
                         \o write_u8(d.hops)
            ELSE <<>>)
        \o (IF IsSome(v.source)
            THEN LET s == v.source[1]
                 IN  write_u16_be(s.net) \o write_u8(AsU8(Len(s.adr))) \o s.adr
            ELSE <<>>)
        \o NPDUContent_encode(v.content)

\* The bytes encode writes to a sink that never fails.
NPDU_encode(v) ==
    write_u8(v.version)
        \o write_u8(NPDU_control(v))
        \o (IF IsSome(v.destination)
            THEN LET d == v.destination[1]
                 IN  write_u16_be(d.net) \o write_u8(AsU8(Len(d.adr))) \o d.adr
            ELSE <<>>)
        \o (IF IsSome(v.source)
            THEN LET s == v.source[1]
                 IN  write_u16_be(s.net) \o write_u8(AsU8(Len(s.adr))) \o s.adr
            ELSE <<>>)
        \o (IF IsSome(v.destination) THEN write_u8(v.destination[1].hops) ELSE <<>>)
        \o NPDUContent_encode(v.content)

NPDU_len(v) ==
    1 + 1
      + (IF IsSome(v.destination) THEN 2 + 1 + Len(v.destination[1].adr) + 1 ELSE 0)
      + (IF IsSome(v.source) THEN 2 + 1 + Len(v.source[1].adr) ELSE 0)
      + NPDUContent_len(v.content)

\* The outcomes of decode: "ok" is Ok(value), "err" is Err(io::Error) (the
\* only error a reader over a byte sequence raises is the short read), and
\* "panic" is the panic of unimplemented!() or unwrap(), which returns
\* nothing.  pos is the reader's position when decode ends.
DecodeOk(v, pos) == [status |-> "ok", value |-> Some(v), pos |-> pos]

DecodeIoError(pos) == [status |-> "err", value |-> None, pos |-> pos]

DecodePanic(pos) == [status |-> "panic", value |-> None, pos |-> pos]

DecodeNone == [status |-> "none", value |-> None, pos |-> 0]

\* The destination block of decode (without the hop count).
DecodeDest(buf, pos, has_dest) ==
    IF ~has_dest THEN ReadOk(None, pos) ELSE
    LET net == read_u16_be(buf, pos) IN
    IF ~net.ok THEN ReadEof(net.pos) ELSE
    LET len == read_u8(buf, net.pos) IN
    IF ~len.ok THEN ReadEof(len.pos) ELSE
    LET dest == NPDUDest_new(net.v, len.v)
        adr == read_exact(buf, len.pos, Len(dest.adr))
    IN  IF ~adr.ok THEN ReadEof(adr.pos)
        ELSE ReadOk(Some([dest EXCEPT !.adr = adr.v]), adr.pos)

\* The source block of decode.
DecodeSource(buf, pos, has_source) ==
    IF ~has_source THEN ReadOk(None, pos) ELSE
    LET net == read_u16_be(buf, pos) IN
    IF ~net.ok THEN ReadEof(net.pos) ELSE
    LET len == read_u8(buf, net.pos) IN
    IF ~len.ok THEN ReadEof(len.pos) ELSE
    LET source == NPDUSource_new(net.v, len.v)
        adr == read_exact(buf, len.pos, Len(source.adr))
    IN  IF ~adr.ok THEN ReadEof(adr.pos)
        ELSE ReadOk(Some([source EXCEPT !.adr = adr.v]), adr.pos)

\* The hop count of decode, read after the source block.
DecodeHops(buf, pos, dest) ==
    IF ~IsSome(dest) THEN ReadOk(None, pos) ELSE
    LET hops == read_u8(buf, pos) IN
    IF ~hops.ok THEN ReadEof(hops.pos)
    ELSE ReadOk(Some([dest[1] EXCEPT !.hops = hops.v]), hops.pos)

NPDU_decode(buf) ==
    LET version == read_u8(buf, 0) IN
    IF ~version.ok THEN DecodeIoError(version.pos) ELSE
    LET ctl == read_u8(buf, version.pos) IN
    IF ~ctl.ok THEN DecodeIoError(ctl.pos) ELSE
    LET control == ctl.v
        priority == NPDUPriority_from_u8(BitAnd8(control, 3))
        has_apdu == BitAnd8(control, Shl8(1, 7)) = 0
        has_dest == BitAnd8(control, Shl8(1, 5)) # 0
        has_source == BitAnd8(control, Shl8(1, 3)) # 0
        data_expecting_reply == BitAnd8(control, Shl8(1, 2)) # 0
    IN
    IF ~IsSome(priority) THEN DecodePanic(ctl.pos) ELSE
    LET dest == DecodeDest(buf, ctl.pos, has_dest) IN
    IF ~dest.ok THEN DecodeIoError(dest.pos) ELSE
    LET source == DecodeSource(buf, dest.pos, has_source) IN
    IF ~source.ok THEN DecodeIoError(source.pos) ELSE
    LET destination == DecodeHops(buf, source.pos, dest.v) IN
    IF ~destination.ok THEN DecodeIoError(destination.pos) ELSE
    IF ~has_apdu THEN DecodePanic(destination.pos) ELSE
    LET apdu == APDU_decode(buf, destination.pos) IN
    IF ~apdu.ok THEN DecodeIoError(apdu.pos) ELSE
    DecodeOk([version |-> version.v, destination |-> destination.v,
              source |-> source.v, data_expecting_reply |-> data_expecting_reply,
              priority |-> priority[1], content |-> ContentAPDU(apdu.v)],
             apdu.pos)

(***************************************************************************)
(* The values the callers of the model build and the bytes they receive.   *)
(***************************************************************************)
NetVals == {294}

AdrBytes == {0, 127}

HopVals == {DefaultHops, 3}

VersionVals == {1, 2}

InputBytes == {1, 8, 32, 128}

\* Destinations and sources as the struct literals of the module build them.
DestVals ==
    {[net |-> n, adr |-> a, hops |-> h] :
        n \in NetVals, a \in SeqsUpTo(AdrBytes, MaxAdrLen), h \in HopVals}

SourceVals ==
    {[net |-> n, adr |-> a] : n \in NetVals, a \in SeqsUpTo(AdrBytes, MaxAdrLen)}

APDUVals ==
    {APDU_new(1, c, u) : c \in {0, 8}, u \in SeqsUpTo({196}, MaxUserData)}

MessageVals ==
    {Kind("WhoIsRouterToNetwork", 0), Kind("NetworkNumberIs", 0),
     Kind("Reserved", 20), Kind("Proprietary", 128)}

ContentVals ==
    {ContentAPDU(a) : a \in APDUVals} \cup {ContentMessage(m) : m \in MessageVals}

OptionOf(S) == {None} \cup {Some(x) : x \in S}

(***************************************************************************)
(* The NPDU envelope as a state machine: a caller builds a value, writes   *)
(* its public fields, encodes it, measures it with len, and decodes the    *)
(* bytes written; or bytes arrive from the transport and are decoded.      *)
(***************************************************************************)
Init ==
    /\ pc = "idle"
    /\ npdu = None
    /\ wire = <<>>
    /\ lenv = None
    /\ res = DecodeNone
    /\ fam = "none"
    /\ kind_in = None
    /\ byte_in = None
    /\ kind_out = None
    /\ byte_out = None

New ==
    /\ pc = "idle"
    /\ \E content \in ContentVals, destination \in OptionOf(DestVals),
          source \in OptionOf(SourceVals), priority \in NPDUPriority :
            npdu' = Some(NPDU_new(content, destination, source, priority))
    /\ pc' = "built"
    /\ UNCHANGED <<wire, lenv, res>>
    /\ UNCHANGED codeVars

\* The fields of NPDU are public: a caller assigns them.
SetVersion ==
    /\ pc = "built"
    /\ \E v \in VersionVals : npdu' = Some([npdu[1] EXCEPT !.version = v])
    /\ UNCHANGED <<pc, wire, lenv, res>>
    /\ UNCHANGED codeVars

SetDataExpectingReply ==
    /\ pc = "built"
    /\ \E b \in BOOLEAN : npdu' = Some([npdu[1] EXCEPT !.data_expecting_reply = b])
    /\ UNCHANGED <<pc, wire, lenv, res>>
    /\ UNCHANGED codeVars

SetPriority ==
    /\ pc = "built"
    /\ \E p \in NPDUPriority : npdu' = Some([npdu[1] EXCEPT !.priority = p])
    /\ UNCHANGED <<pc, wire, lenv, res>>
    /\ UNCHANGED codeVars

SetDestination ==
    /\ pc = "built"
    /\ \E d \in OptionOf(DestVals) : npdu' = Some([npdu[1] EXCEPT !.destination = d])
    /\ UNCHANGED <<pc, wire, lenv, res>>
    /\ UNCHANGED codeVars

SetSource ==
    /\ pc = "built"
    /\ \E s \in OptionOf(SourceVals) : npdu' = Some([npdu[1] EXCEPT !.source = s])
    /\ UNCHANGED <<pc, wire, lenv, res>>
    /\ UNCHANGED codeVars

SetContent ==
    /\ pc = "built"
    /\ \E c \in ContentVals : npdu' = Some([npdu[1] EXCEPT !.content = c])
    /\ UNCHANGED <<pc, wire, lenv, res>>
    /\ UNCHANGED codeVars

\* npdu.encode(&mut writer) on an empty writer that never fails.
Encode ==
    /\ pc = "built"
    /\ wire' = NPDU_encode(npdu[1])
    /\ pc' = "encoded"
    /\ UNCHANGED <<npdu, lenv, res>>
    /\ UNCHANGED codeVars

\* npdu.len() of the value just encoded.
Measure ==
    /\ pc = "encoded"
    /\ lenv' = Some(NPDU_len(npdu[1]))
    /\ pc' = "measured"
    /\ UNCHANGED <<npdu, wire, res>>
    /\ UNCHANGED codeVars

\* The transport hands over one more byte of a received frame.
Recv ==
    /\ pc \in {"idle", "recv"}
    /\ Len(wire) < MaxInputLen
    /\ \E b \in InputBytes : wire' = Append(wire, b)
    /\ pc' = "recv"
    /\ UNCHANGED <<npdu, lenv, res>>
    /\ UNCHANGED codeVars

\* NPDU::decode(&mut reader) on a reader over the bytes of wire.
Decode ==
    /\ pc \in {"encoded", "recv"}
    /\ res' = NPDU_decode(wire)
    /\ pc' = "decoded"
    /\ UNCHANGED <<npdu, wire, lenv>>
    /\ UNCHANGED codeVars

Next ==
    \/ New
    \/ SetVersion
    \/ SetDataExpectingReply
    \/ SetPriority
    \/ SetDestination
    \/ SetSource
    \/ SetContent
    \/ Encode
    \/ Measure
    \/ Recv
    \/ Decode

Spec == Init /\ [][Next]_vars

(***************************************************************************)
(* The numeric-code conversions as a state machine: a kind is constructed  *)
(* and converted to its byte and back, or a byte is picked and converted   *)
(* to its kind and back.  fam names the enumeration: "app" ApplicationTag, *)
(* "ctx" ContextTag, "msg" NPDUMessage.                                    *)
(***************************************************************************)
Families == {"app", "ctx", "msg"}

KindsOf(f) ==
    CASE f = "app" -> ApplicationTag
      [] f = "ctx" -> ContextTag
      [] f = "msg" -> NPDUMessage

\* u8::from(kind); for an NPDUMessage the byte its encode writes.
KindIntoU8(f, k) ==
    CASE f = "app" -> ApplicationTag_into_u8(k)
      [] f = "ctx" -> ContextTag_into_u8(k)
      [] f = "msg" -> NPDUMessage_encode(k)[1]

\* Kind::from(byte), Some(kind); for an NPDUMessage the Result of try_from.
KindFromU8(f, b) ==
    CASE f = "app" -> Some(ApplicationTag_from_u8(b))
      [] f = "ctx" -> Some(ContextTag_from_u8(b))
      [] f = "msg" -> NPDUMessage_try_from(b)

Construct ==
    /\ pc = "idle"
    /\ \E f \in Families : \E k \in KindsOf(f) :
          /\ fam' = f
          /\ kind_in' = Some(k)
    /\ pc' = "kind_built"
    /\ UNCHANGED <<byte_in, kind_out, byte_out>>
    /\ UNCHANGED npduVars

PickByte ==
    /\ pc = "idle"
    /\ \E f \in Families : \E b \in Byte :
          /\ fam' = f
          /\ byte_in' = Some(b)
    /\ pc' = "byte_picked"
    /\ UNCHANGED <<kind_in, kind_out, byte_out>>
    /\ UNCHANGED npduVars

IntoU8 ==
    \/ /\ pc = "kind_built"
       /\ byte_out' = Some(KindIntoU8(fam, kind_in[1]))
       /\ pc' = "kind_byte"
       /\ UNCHANGED <<fam, kind_in, byte_in, kind_out>>
       /\ UNCHANGED npduVars
    \/ /\ pc = "byte_kind"
       /\ IsSome(kind_out)
       /\ byte_out' = Some(KindIntoU8(fam, kind_out[1]))
       /\ pc' = "byte_back"
       /\ UNCHANGED <<fam, kind_in, byte_in, kind_out>>
       /\ UNCHANGED npduVars

FromU8 ==
    \/ /\ pc = "byte_picked"
       /\ kind_out' = KindFromU8(fam, byte_in[1])
       /\ pc' = "byte_kind"
       /\ UNCHANGED <<fam, kind_in, byte_in, byte_out>>
       /\ UNCHANGED npduVars
    \/ /\ pc = "kind_byte"
       /\ kind_out' = KindFromU8(fam, byte_out[1])
       /\ pc' = "kind_back"
       /\ UNCHANGED <<fam, kind_in, byte_in, byte_out>>
       /\ UNCHANGED npduVars

NextCodes ==
    \/ Construct
    \/ PickByte
    \/ IntoU8
    \/ FromU8

SpecCodes == Init /\ [][NextCodes]_vars

(***************************************************************************)
(* Properties of the NPDU envelope (checked under Spec).                   *)
(***************************************************************************)
\* The states in which wire holds the bytes encode wrote for npdu.
Encoded == pc \in {"encoded", "measured"} \/ (pc = "decoded" /\ IsSome(npdu))

\* The states in which res is the outcome of decoding the bytes of wire.
Decoded == pc = "decoded"

\* The header fields the control byte of buf selects can all be read.
HeaderReadable(buf) ==
    /\ Len(buf) >= 2
    /\ LET dest == DecodeDest(buf, 2, Bit(buf[2], 5) = 1) IN
       /\ dest.ok
       /\ LET source == DecodeSource(buf, dest.pos, Bit(buf[2], 3) = 1) IN
          /\ source.ok
          /\ DecodeHops(buf, source.pos, dest.v).ok

\* C1: decoding the bytes encode wrote for an NPDU whose content is an APDU
\* returns a value equal to the NPDU encoded.
C1_RoundTrip ==
    (Decoded /\ IsSome(npdu) /\ npdu[1].content.variant = "APDU")
        => (res.status = "ok" /\ res.value = npdu)

\* C2: len() equals the number of bytes encode writes, for both content
\* variants.
C2_LenMatchesEncode ==
    pc = "measured" => lenv = Some(Len(wire))

\* C3: an input whose control byte has bit 5 set and whose destination
\* length byte declares more address bytes than remain after it is refused
\* with an error, and the reader never goes past the end of the input.
C3_TruncatedDestFails ==
    (Decoded /\ Len(wire) >= 5 /\ Bit(wire[2], 5) = 1 /\ wire[5] > Len(wire) - 5)
        => (res.status = "err" /\ res.pos <= Len(wire))

\* C4: encode writes version, control, the destination block (net big-endian,
\* length, address) if present, the source block (net big-endian, length,
\* address) if present, the hop count once if and only if a destination is
\* present and after the source block, and then the content.
C4_EncodeOrder ==
    Encoded =>
        LET v == npdu[1]
            hasD == IsSome(v.destination)
            hasS == IsSome(v.source)
            dEnd == 2 + (IF hasD THEN 3 + Len(v.destination[1].adr) ELSE 0)
            sEnd == dEnd + (IF hasS THEN 3 + Len(v.source[1].adr) ELSE 0)
            hEnd == sEnd + (IF hasD THEN 1 ELSE 0)
        IN  /\ Len(wire) >= hEnd
            /\ wire[1] = v.version
            /\ wire[2] \in Byte
            /\ hasD =>
                /\ wire[3] * 256 + wire[4] = v.destination[1].net
                /\ wire[5] = Len(v.destination[1].adr)
                /\ SubSeq(wire, 6, dEnd) = v.destination[1].adr
                /\ wire[sEnd + 1] = v.destination[1].hops
            /\ hasS =>
                /\ wire[dEnd + 1] * 256 + wire[dEnd + 2] = v.source[1].net
                /\ wire[dEnd + 3] = Len(v.source[1].adr)
                /\ SubSeq(wire, dEnd + 4, sEnd) = v.source[1].adr
            /\ SubSeq(wire, hEnd + 1, Len(wire)) = NPDUContent_encode(v.content)

C4_Witness ==
    /\ pc = "encoded"
    /\ IsSome(npdu[1].destination)
    /\ IsSome(npdu[1].source)
    /\ npdu[1].destination[1].adr = <<0, 127>>
    /\ npdu[1].source[1].adr = <<127>>
    /\ npdu[1].destination[1].hops = 3
    /\ wire[8] = 1 /\ wire[9] = 38 /\ wire[12] = 3

\* C5: the control byte encode writes has bits 0-1 equal to the priority
\* code, bit 2 set iff data_expecting_reply, bit 3 iff source is present,
\* bit 5 iff destination is present, bit 7 iff the content is a control
\* message, and bits 4 and 6 clear.
C5_ControlByte ==
    Encoded =>
        LET v == npdu[1]
            c == wire[2]
        IN  /\ c % 4 = NPDUPriority_into_u8(v.priority)
            /\ (Bit(c, 2) = 1) <=> v.data_expecting_reply
            /\ (Bit(c, 3) = 1) <=> IsSome(v.source)
            /\ Bit(c, 4) = 0
            /\ (Bit(c, 5) = 1) <=> IsSome(v.destination)
            /\ Bit(c, 6) = 0
            /\ (Bit(c, 7) = 1) <=> (v.content.variant = "Message")
            /\ c = NPDUPriority_into_u8(v.priority)
                    + (IF v.data_expecting_reply THEN 4 ELSE 0)
                    + (IF IsSome(v.source) THEN 8 ELSE 0)
                    + (IF IsSome(v.destination) THEN 32 ELSE 0)
                    + (IF v.content.variant = "Message" THEN 128 ELSE 0)

C5_Witness ==
    /\ pc = "encoded"
    /\ IsSome(npdu[1].destination)
    /\ IsSome(npdu[1].source)
    /\ npdu[1].data_expecting_reply
    /\ npdu[1].priority = "Urgent"
    /\ wire[2] = 45

\* C9: when the control byte has bit 7 set and the header it selects can be
\* read, decode ends in a failure returned to the caller as a typed result
\* (an Err), and returns no NPDU value.
C9_MessageDecodeTypedFailure ==
    (Decoded /\ HeaderReadable(wire) /\ Bit(wire[2], 7) = 1)
        => (res.status = "err" /\ res.value = None)

\* C10: the version is always 1: of every NPDU value built or written to, of
\* every value decode returns, and of the first byte encode writes.
C10_VersionAlwaysOne ==
    /\ IsSome(npdu) => npdu[1].version = 1
    /\ (Decoded /\ res.status = "ok") => (res.value[1].version = 1 /\ wire[1] = 1)
    /\ Encoded => wire[1] = 1

\* C11: when decode returns a value from an input whose control byte has
\* bit 5 (bit 3) set, the destination (source) address returned has as many
\* bytes as the length byte of its block declares, they are the input bytes
\* that follow the length byte, and the next field (source block, hop count,
\* content) is read from the byte after them.
C11_AddressAsDeclared ==
    (Decoded /\ res.status = "ok") =>
        LET v == res.value[1]
            hasD == Bit(wire[2], 5) = 1
            hasS == Bit(wire[2], 3) = 1
            dl == IF hasD THEN wire[5] ELSE 0
            dEnd == 2 + (IF hasD THEN 3 + dl ELSE 0)
            sl == IF hasS /\ Len(wire) >= dEnd + 3 THEN wire[dEnd + 3] ELSE 0
            sEnd == dEnd + (IF hasS THEN 3 + sl ELSE 0)
            hEnd == sEnd + (IF hasD THEN 1 ELSE 0)
        IN  /\ Len(wire) >= hEnd
            /\ hasD =>
                /\ IsSome(v.destination)
                /\ Len(v.destination[1].adr) = dl
                /\ v.destination[1].adr = SubSeq(wire, 6, dEnd)
                /\ v.destination[1].hops = wire[sEnd + 1]
            /\ hasS =>
                /\ IsSome(v.source)
                /\ v.source[1].net = wire[dEnd + 1] * 256 + wire[dEnd + 2]
                /\ Len(v.source[1].adr) = sl
                /\ v.source[1].adr = SubSeq(wire, dEnd + 4, sEnd)
            /\ v.content =
                ContentAPDU(APDU_decode(wire, hEnd).v)

(***************************************************************************)
(* Properties of the numeric-code conversions (checked under SpecCodes).   *)
(***************************************************************************)
\* The kinds From<u8> for ApplicationTag documents: the named kinds,
\* Reserved(13..15) and Other(16..255).
CanonicalApplicationTag(k) ==
    /\ k.kind = "Reserved" => k.t \in 13..15
    /\ k.kind = "Other" => k.t \in 16..255

\* C6 as stated: every constructed ApplicationTag, Reserved(c) and Other(c)
\* with any byte c included, converted to its byte and back is the same kind.
C6_AnyKindRoundTrips ==
    (pc = "kind_back" /\ fam = "app") => kind_out = kind_in

\* C6 as amended: an ApplicationTag that is a named kind, Reserved(c) with c
\* in 13..15 or Other(c) with c in 16..255, converted to its byte and back,
\* is the same kind with the same code.
C6_CanonicalKindRoundTrips ==
    (pc = "kind_back" /\ fam = "app" /\ CanonicalApplicationTag(kind_in[1]))
        => kind_out = kind_in

C6_Witness ==
    /\ pc = "kind_back"
    /\ fam = "app"
    /\ kind_in = Some(Kind("Reserved", 15))
    /\ byte_out = Some(15)
    /\ kind_out = kind_in

\* C7: every byte converted to an ApplicationTag or a ContextTag and back is
\* the same byte; no conversion fails; 13..15 give Reserved(b) and 16..255
\* give Other(b).
C7_ByteRoundTrips ==
    (fam \in {"app", "ctx"} /\ pc \in {"byte_kind", "byte_back"}) =>
        LET b == byte_in[1] IN
        /\ IsSome(kind_out)
        /\ (fam = "app" /\ b \in 13..15) => kind_out[1] = Kind("Reserved", b)
        /\ (fam = "app" /\ b \in 16..255) => kind_out[1] = Kind("Other", b)
        /\ pc = "byte_back" => byte_out = byte_in

C7_Witness ==
    /\ pc = "byte_back"
    /\ fam = "app"
    /\ byte_in = Some(14)
    /\ kind_out = Some(Kind("Reserved", 14))
    /\ byte_out = Some(14)

\* C8: NPDUMessage::try_from succeeds for every byte, gives a named kind for
\* 0x00..0x13, Reserved(b) for 0x14..0x7F and Proprietary(b) for 0x80..0xFF,
\* and encoding that kind writes the byte b.
C8_MessageCodeRoundTrips ==
    (fam = "msg" /\ pc \in {"byte_kind", "byte_back"}) =>
        LET b == byte_in[1] IN
        /\ IsSome(kind_out)
        /\ b \in 0..19 =>
            /\ \E i \in 1..20 : kind_out[1] = Kind(MsgNamed[i], 0)
            /\ kind_out[1].kind \notin {"Reserved", "Proprietary"}
        /\ b \in 20..127 => kind_out[1] = Kind("Reserved", b)
        /\ b \in 128..255 => kind_out[1] = Kind("Proprietary", b)
        /\ pc = "byte_back" => byte_out = byte_in

C8_Witness ==
    /\ pc = "byte_back"
    /\ fam = "msg"
    /\ byte_in = Some(127)
    /\ kind_out = Some(Kind("Reserved", 127))
    /\ byte_out = Some(127)

====
